---- MODULE Spec2Model ----
(***************************************************************************)
(* Model of the Snowman decompiler's pipeline controller                   *)
(* (nc::core::MasterAnalyzer, src/nc/core/MasterAnalyzer.cpp) and of its   *)
(* liveness analysis (nc::core::ir::liveness::LivenessAnalyzer,            *)
(* src/nc/core/ir/liveness/LivenessAnalyzer.cpp).                          *)
(*                                                                         *)
(* Spec      : one run of MasterAnalyzer::decompile(Context &) with the    *)
(*             caller's thread firing the cancellation token at any time.  *)
(* LiveSpec  : one run of LivenessAnalyzer::analyze() on a bounded family  *)
(*             of functions (statements, terms, dataflow, region graph).   *)
(***************************************************************************)
EXTENDS Naturals, Integers, Sequences, FiniteSets, TLC

\* ------------------------------------------------------------------ bounds

\* Largest number of functions FunctionsGenerator may produce.
MaxFunctions == 2

\* ------------------------------------------------------------- variables

VARIABLES
    \* --- MasterAnalyzer::decompile ---
    treeChecks,   \* build switch NC_TREE_CHECKS
    pc,           \* position inside decompile: [phase, at, fi]
    ctx,          \* Context: slot -> installed object (0: unset)
    hooks,        \* the stores the installed Hooks was constructed over
    functions,    \* Context.functions()->list()
    dataflows,    \* keys of the installed Dataflows map
    graphs,       \* keys of the installed Graphs map
    livenesses,   \* keys of the installed Livenesses map
    cancelled,    \* the cancellation token
    outcome,      \* "running" | "completed" | "Cancelled" | "PreconditionNotMet"
    log,          \* messages sent to context.logToken()
    nextId,       \* identity of the next object constructed
    setCount,     \* history: how often each Context setter was called
    fired         \* history: where decompile stood when the token fired

pipeVars == <<treeChecks, pc, ctx, hooks, functions, dataflows, graphs,
              livenesses, cancelled, outcome, log, nextId, setCount, fired>>

VARIABLES
    \* --- LivenessAnalyzer::analyze ---
    preferConstants, \* build switch NC_PREFER_CONSTANTS_TO_EXPRESSIONS
    input,        \* what the analyzer was constructed over: the function's
                  \* census, its Dataflow, its region Graph, Hooks, Signatures
    lpc,          \* position inside analyze
    idx,          \* index of the current foreach loop
    deadJumps,    \* deadJumps_
    liveness,     \* the Liveness being computed: the set of live terms
    calls,        \* history: <<caller, term>> of each makeLive call
    marked        \* history: number of makeLive calls that marked a term

liveVars == <<preferConstants, input, lpc, idx, deadJumps, liveness, calls,
              marked>>

VARIABLES
    \* --- MasterAnalyzer::createFunctions / pickFunctionName ---
    symbols,      \* context.module()->getName(address), by address
    heapBase,     \* where the allocator places the ir::Function objects
    produced,     \* history: the functions as makeFunctions produced them
    made,         \* functions->list(): the functions with name and comment
    npc           \* position inside createFunctions: [at, i]

nameVars == <<symbols, heapBase, produced, made, npc>>

vars == <<pipeVars, liveVars, nameVars>>

\* ------------------------------------------------------------ the Context

Slots == {"Module", "Instructions", "Program", "Functions", "Conventions",
          "Signatures", "Hooks", "Dataflows", "Variables", "Graphs",
          "Livenesses", "Types", "Tree", "TermToFunction"}

\* context.x() of every slot in S is non-null.
IsSet(S) == \A s \in S : ctx[s] # 0

\* The message each phase sends to the log token on entry.
PhaseMessage(p) ==
    CASE p = "createProgram" -> "Creating intermediate representation of the program."
      [] p = "createFunctions" -> "Creating functions."
      [] p = "dataflowAnalysis" -> "Dataflow analysis."
      [] p = "reconstructSignatures" -> "Reconstructing function signatures."
      [] p = "reconstructVariables" -> "Reconstructing variables."
      [] p = "structuralAnalysis" -> "Structural analysis."
      [] p = "livenessAnalysis" -> "Liveness analysis."
      [] p = "reconstructTypes" -> "Reconstructing types."
      [] p = "generateTree" -> "Generating AST."
      [] p = "checkTree" -> "Checking AST."
      [] p = "computeTermToFunctionMapping" -> "Computing term to function mapping."

\* The message each per-function analysis sends on entry ("... of %1.").
FunctionMessage(p) ==
    CASE p = "dataflowAnalysis" -> "Dataflow analysis of %1."
      [] p = "structuralAnalysis" -> "Structural analysis of %1."
      [] p = "livenessAnalysis" -> "Liveness analysis of %1."

\* A mutant of Phases: liveness analysis called before structural analysis.
PhasesLivenessFirst ==
    <<"createProgram", "createFunctions", "dataflowAnalysis",
      "reconstructSignatures", "dataflowAnalysis", "reconstructVariables",
      "livenessAnalysis", "structuralAnalysis", "reconstructTypes",
      "generateTree">>
    \o (IF treeChecks THEN <<"checkTree">> ELSE <<>>)
    \o <<"computeTermToFunctionMapping">>

\* A mutant of Phases: the second dataflow pass left out.
PhasesOneDataflow ==
    <<"createProgram", "createFunctions", "dataflowAnalysis",
      "reconstructSignatures", "reconstructVariables",
      "structuralAnalysis", "livenessAnalysis", "reconstructTypes",
      "generateTree">>
    \o (IF treeChecks THEN <<"checkTree">> ELSE <<>>)
    \o <<"computeTermToFunctionMapping">>

\* A mutant of Phases: variables reconstructed again after structuring.
PhasesVariablesTwice ==
    <<"createProgram", "createFunctions", "dataflowAnalysis",
      "reconstructSignatures", "dataflowAnalysis", "reconstructVariables",
      "structuralAnalysis", "reconstructVariables", "livenessAnalysis",
      "reconstructTypes", "generateTree">>
    \o (IF treeChecks THEN <<"checkTree">> ELSE <<>>)
    \o <<"computeTermToFunctionMapping">>

\* The calls decompile makes, in program order (each is followed by a poll).
Phases ==
    <<"createProgram", "createFunctions", "dataflowAnalysis",
      "reconstructSignatures", "dataflowAnalysis", "reconstructVariables",
      "structuralAnalysis", "livenessAnalysis", "reconstructTypes",
      "generateTree">>
    \o (IF treeChecks THEN <<"checkTree">> ELSE <<>>)
    \o <<"computeTermToFunctionMapping">>

NumPhases == Len(Phases)

\* The phase decompile is in ("none" before the first call and past the
\* last poll).
Current == IF pc.phase \in 1..NumPhases THEN Phases[pc.phase] ELSE "none"

Running == outcome = "running"

At(p, at) == Running /\ Current = p /\ pc.at = at

\* The phases whose analyzer is handed context.cancellationToken().
TokenPhases == {"createProgram", "reconstructSignatures", "reconstructTypes",
                "generateTree"}

\* The phases that loop over context.functions()->list().
LoopPhases == {"dataflowAnalysis", "structuralAnalysis", "livenessAnalysis"}

\* Position after the set-up part of a per-function phase: the first
\* function of the list, or the end of the phase when the list is empty.
EnterLoop == IF Len(functions) = 0
             THEN [pc EXCEPT !.at = "poll"]
             ELSE [pc EXCEPT !.at = "fcall", !.fi = 1]

\* Position after function pc.fi of a foreach loop is done with.
NextFunction == IF pc.fi = Len(functions)
                THEN [pc EXCEPT !.at = "poll", !.fi = 0]
                ELSE [pc EXCEPT !.at = "fcall", !.fi = pc.fi + 1]

\* Reading an unset slot (or a missing map entry): the run ends there.
PreconditionNotMet ==
    /\ outcome' = "PreconditionNotMet"
    /\ UNCHANGED <<liveVars, nameVars, treeChecks, pc, ctx, hooks, functions, dataflows, graphs,
                   livenesses, cancelled, log, nextId, setCount, fired>>

\* context.setX(std::move(x)) of one freshly constructed artifact.
Install(s) ==
    /\ ctx' = [ctx EXCEPT ![s] = nextId]
    /\ nextId' = nextId + 1
    /\ setCount' = [setCount EXCEPT ![s] = @ + 1]

\* ------------------------------------------------------------------- Init

NotFired == [phase |-> 0, at |-> "none", fi |-> 0, logLen |-> 0]

\* The caller populated Module and Instructions; it may also have installed
\* Signatures and Conventions of its own (dataflowAnalysis tests for both).
PipeInit ==
    /\ treeChecks \in BOOLEAN
    /\ \E preset \in SUBSET {"Signatures", "Conventions"} :
         /\ ctx = [s \in Slots |->
                     CASE s = "Module" -> 1
                       [] s = "Instructions" -> 2
                       [] s = "Signatures" -> IF s \in preset THEN 3 ELSE 0
                       [] s = "Conventions" -> IF s \in preset THEN 4 ELSE 0
                       [] OTHER -> 0]
    /\ nextId = 5
    /\ pc = [phase |-> 0, at |-> "entry", fi |-> 0]
    /\ hooks = [conventions |-> 0, signatures |-> 0]
    /\ functions = <<>>
    /\ dataflows = {}
    /\ graphs = {}
    /\ livenesses = {}
    /\ cancelled = FALSE
    /\ outcome = "running"
    /\ log = <<>>
    /\ setCount = [s \in Slots |-> 0]
    /\ fired = NotFired

\* The liveness analyzer is not under observation in Spec.
LiveIdle ==
    /\ preferConstants = FALSE
    /\ input = <<>>
    /\ lpc = "idle"
    /\ idx = 0
    /\ deadJumps = <<>>
    /\ liveness = {}
    /\ calls = {}
    /\ marked = 0

\* createFunctions is not under observation on its own in Spec.
NameIdle ==
    /\ symbols = <<>>
    /\ heapBase = 0
    /\ produced = <<>>
    /\ made = <<>>
    /\ npc = [at |-> "idle", i |-> 0]

Init == PipeInit /\ LiveIdle /\ NameIdle

\* --------------------------------------------------------------- decompile

\* decompile's first statement: log "Decompiling.".
Decompile ==
    /\ Running /\ pc.at = "entry"
    /\ log' = Append(log, [msg |-> "Decompiling.", fn |-> 0])
    /\ pc' = [phase |-> 1, at |-> "call", fi |-> 0]
    /\ UNCHANGED <<liveVars, nameVars, treeChecks, ctx, hooks, functions, dataflows, graphs,
                   livenesses, cancelled, outcome, nextId, setCount, fired>>

\* decompile calls its next phase, which logs its label first.
EnterPhase ==
    /\ Running /\ pc.phase \in 1..NumPhases /\ pc.at = "call"
    /\ log' = Append(log, [msg |-> PhaseMessage(Current), fn |-> 0])
    /\ pc' = [pc EXCEPT !.at = "body"]
    /\ UNCHANGED <<liveVars, nameVars, treeChecks, ctx, hooks, functions, dataflows, graphs,
                   livenesses, cancelled, outcome, nextId, setCount, fired>>

\* A mutant of Poll: no poll after the last phase.
PollButLast ==
    /\ Running /\ pc.phase \in 1..NumPhases /\ pc.at = "poll"
    /\ IF cancelled /\ pc.phase < NumPhases
       THEN outcome' = "Cancelled" /\ pc' = pc
       ELSE outcome' = outcome
            /\ pc' = [phase |-> pc.phase + 1, at |-> "call", fi |-> 0]
    /\ UNCHANGED <<liveVars, nameVars, treeChecks, ctx, hooks, functions, dataflows, graphs,
                   livenesses, cancelled, log, nextId, setCount, fired>>

\* context.cancellationToken().poll() after a phase: throws when fired.
Poll ==
    /\ Running /\ pc.phase \in 1..NumPhases /\ pc.at = "poll"
    /\ IF cancelled
       THEN outcome' = "Cancelled" /\ pc' = pc
       ELSE outcome' = outcome
            /\ pc' = [phase |-> pc.phase + 1, at |-> "call", fi |-> 0]
    /\ UNCHANGED <<liveVars, nameVars, treeChecks, ctx, hooks, functions, dataflows, graphs,
                   livenesses, cancelled, log, nextId, setCount, fired>>

\* decompile's last statement: log "Decompilation completed." and return.
Complete ==
    /\ Running /\ pc.phase = NumPhases + 1
    /\ log' = Append(log, [msg |-> "Decompilation completed.", fn |-> 0])
    /\ outcome' = "completed"
    /\ UNCHANGED <<liveVars, nameVars, treeChecks, pc, ctx, hooks, functions, dataflows, graphs,
                   livenesses, cancelled, nextId, setCount, fired>>

\* Another thread fires the token while decompile runs.
Cancel ==
    /\ Running /\ ~cancelled
    /\ cancelled' = TRUE
    /\ fired' = [phase |-> pc.phase, at |-> pc.at, fi |-> pc.fi,
                 logLen |-> Len(log)]
    /\ UNCHANGED <<liveVars, nameVars, treeChecks, pc, ctx, hooks, functions, dataflows, graphs,
                   livenesses, outcome, log, nextId, setCount>>

\* An analyzer that was handed the token polls it itself and unwinds.
InnerCancel ==
    /\ Running /\ cancelled /\ pc.phase \in 1..NumPhases
    /\ \/ pc.at = "body" /\ Current \in TokenPhases
       \/ pc.at = "fbody" /\ Current = "dataflowAnalysis"
    /\ outcome' = "Cancelled"
    /\ UNCHANGED <<liveVars, nameVars, treeChecks, pc, ctx, hooks, functions, dataflows, graphs,
                   livenesses, cancelled, log, nextId, setCount, fired>>

\* ------------------------------------------------------------- the phases

\* createProgram: IRGenerator(module, instructions, program); setProgram.
CreateProgram ==
    /\ At("createProgram", "body")
    /\ IF ~IsSet({"Module", "Instructions"}) THEN PreconditionNotMet
       ELSE /\ Install("Program")
            /\ pc' = [pc EXCEPT !.at = "poll"]
            /\ UNCHANGED <<liveVars, nameVars, treeChecks, hooks, functions, dataflows, graphs,
                           livenesses, cancelled, outcome, log, fired>>

\* createFunctions: makeFunctions(*program, *functions); pickFunctionName of
\* each (reads module); setFunctions.
CreateFunctions ==
    /\ At("createFunctions", "body")
    /\ IF ~IsSet({"Program", "Module"}) THEN PreconditionNotMet
       ELSE /\ \E n \in 0..MaxFunctions : functions' = [i \in 1..n |-> i]
            /\ Install("Functions")
            /\ pc' = [pc EXCEPT !.at = "poll"]
            /\ UNCHANGED <<liveVars, nameVars, treeChecks, hooks, dataflows, graphs, livenesses,
                           cancelled, outcome, log, fired>>

\* A mutant of DataflowAnalysis: a Hooks that is installed already is kept.
DataflowAnalysisKeepsHooks ==
    /\ At("dataflowAnalysis", "body")
    /\ LET sig == IF ctx["Signatures"] = 0 THEN nextId ELSE ctx["Signatures"]
           n1 == IF ctx["Signatures"] = 0 THEN nextId + 1 ELSE nextId
           conv == IF ctx["Conventions"] = 0 THEN n1 ELSE ctx["Conventions"]
           n2 == IF ctx["Conventions"] = 0 THEN n1 + 1 ELSE n1
       IN  IF ~IsSet({"Functions"}) THEN PreconditionNotMet
           ELSE /\ ctx' = [ctx EXCEPT !["Signatures"] = sig,
                                      !["Conventions"] = conv,
                                      !["Hooks"] = IF @ = 0 THEN n2 ELSE @,
                                      !["Dataflows"] = n2 + 1]
                /\ nextId' = n2 + 2
                /\ hooks' = IF ctx["Hooks"] = 0
                            THEN [conventions |-> conv, signatures |-> sig]
                            ELSE hooks
                /\ setCount' = [setCount EXCEPT
                       !["Signatures"] = IF ctx["Signatures"] = 0 THEN @ + 1 ELSE @,
                       !["Conventions"] = IF ctx["Conventions"] = 0 THEN @ + 1 ELSE @,
                       !["Hooks"] = @ + 1,
                       !["Dataflows"] = @ + 1]
                /\ dataflows' = {}
                /\ pc' = EnterLoop
                /\ UNCHANGED <<liveVars, nameVars, treeChecks, functions, graphs, livenesses,
                               cancelled, outcome, log, fired>>

\* dataflowAnalysis(context) up to its loop: install empty Signatures and
\* Conventions when missing, build Hooks over the two installed stores,
\* install a new Dataflows map.
DataflowAnalysis ==
    /\ At("dataflowAnalysis", "body")
    /\ LET sig == IF ctx["Signatures"] = 0 THEN nextId ELSE ctx["Signatures"]
           n1 == IF ctx["Signatures"] = 0 THEN nextId + 1 ELSE nextId
           conv == IF ctx["Conventions"] = 0 THEN n1 ELSE ctx["Conventions"]
           n2 == IF ctx["Conventions"] = 0 THEN n1 + 1 ELSE n1
       IN  IF ~IsSet({"Functions"}) THEN PreconditionNotMet
           ELSE /\ ctx' = [ctx EXCEPT !["Signatures"] = sig,
                                      !["Conventions"] = conv,
                                      !["Hooks"] = n2,
                                      !["Dataflows"] = n2 + 1]
                /\ nextId' = n2 + 2
                /\ hooks' = [conventions |-> conv, signatures |-> sig]
                /\ setCount' = [setCount EXCEPT
                       !["Signatures"] = IF ctx["Signatures"] = 0 THEN @ + 1 ELSE @,
                       !["Conventions"] = IF ctx["Conventions"] = 0 THEN @ + 1 ELSE @,
                       !["Hooks"] = @ + 1,
                       !["Dataflows"] = @ + 1]
                /\ dataflows' = {}
                /\ pc' = EnterLoop
                /\ UNCHANGED <<liveVars, nameVars, treeChecks, functions, graphs, livenesses,
                               cancelled, outcome, log, fired>>

\* The foreach loops call the per-function analysis, which logs its label.
EnterFunction ==
    /\ Running /\ pc.phase \in 1..NumPhases /\ pc.at = "fcall"
    /\ Current \in LoopPhases
    /\ log' = Append(log, [msg |-> FunctionMessage(Current),
                           fn |-> functions[pc.fi]])
    /\ pc' = [pc EXCEPT !.at = "fbody"]
    /\ UNCHANGED <<liveVars, nameVars, treeChecks, ctx, hooks, functions, dataflows, graphs,
                   livenesses, cancelled, outcome, nextId, setCount, fired>>

\* dataflowAnalysis(context, function): DataflowAnalyzer(...).analyze(token);
\* dataflows()->emplace(function, dataflow).
DataflowFunction ==
    /\ At("dataflowAnalysis", "fbody")
    /\ IF ~IsSet({"Module", "Hooks", "Dataflows"}) THEN PreconditionNotMet
       ELSE /\ dataflows' = dataflows \cup {functions[pc.fi]}
            /\ pc' = [pc EXCEPT !.at = "fpoll"]
            /\ UNCHANGED <<liveVars, nameVars, treeChecks, ctx, hooks, functions, graphs,
                           livenesses, cancelled, outcome, log, nextId,
                           setCount, fired>>

\* A mutant of LoopPoll: an aborted loop empties the map it was filling.
LoopPollClears ==
    /\ Running /\ pc.phase \in 1..NumPhases /\ pc.at = "fpoll"
    /\ IF cancelled
       THEN /\ outcome' = "Cancelled" /\ pc' = pc
            /\ dataflows' = IF Current = "dataflowAnalysis" THEN {}
                             ELSE dataflows
            /\ graphs' = IF Current = "structuralAnalysis" THEN {} ELSE graphs
       ELSE /\ outcome' = outcome /\ pc' = NextFunction
            /\ UNCHANGED <<dataflows, graphs>>
    /\ UNCHANGED <<liveVars, nameVars, treeChecks, ctx, hooks, functions, livenesses,
                   cancelled, log, nextId, setCount, fired>>

\* The poll that ends each iteration of the dataflow and structural loops.
LoopPoll ==
    /\ Running /\ pc.phase \in 1..NumPhases /\ pc.at = "fpoll"
    /\ IF cancelled
       THEN outcome' = "Cancelled" /\ pc' = pc
       ELSE outcome' = outcome /\ pc' = NextFunction
    /\ UNCHANGED <<liveVars, nameVars, treeChecks, ctx, hooks, functions, dataflows, graphs,
                   livenesses, cancelled, log, nextId, setCount, fired>>

\* reconstructSignatures: SignatureAnalyzer(*signatures, *dataflows, *hooks)
\* fills a new Signatures store, which setSignatures then installs.
ReconstructSignatures ==
    /\ At("reconstructSignatures", "body")
    /\ IF ~IsSet({"Dataflows", "Hooks"}) THEN PreconditionNotMet
       ELSE /\ Install("Signatures")
            /\ pc' = [pc EXCEPT !.at = "poll"]
            /\ UNCHANGED <<liveVars, nameVars, treeChecks, hooks, functions, dataflows, graphs,
                           livenesses, cancelled, outcome, log, fired>>

\* reconstructVariables: VariableAnalyzer(*variables, *dataflows, arch).
ReconstructVariables ==
    /\ At("reconstructVariables", "body")
    /\ IF ~IsSet({"Dataflows", "Module"}) THEN PreconditionNotMet
       ELSE /\ Install("Variables")
            /\ pc' = [pc EXCEPT !.at = "poll"]
            /\ UNCHANGED <<liveVars, nameVars, treeChecks, hooks, functions, dataflows, graphs,
                           livenesses, cancelled, outcome, log, fired>>

\* structuralAnalysis(context) up to its loop: install a new Graphs map.
StructuralAnalysis ==
    /\ At("structuralAnalysis", "body")
    /\ IF ~IsSet({"Functions"}) THEN PreconditionNotMet
       ELSE /\ Install("Graphs")
            /\ graphs' = {}
            /\ pc' = EnterLoop
            /\ UNCHANGED <<liveVars, nameVars, treeChecks, hooks, functions, dataflows,
                           livenesses, cancelled, outcome, log, fired>>

\* structuralAnalysis(context, function): GraphBuilder, StructureAnalyzer
\* over dataflows()->at(function); graphs()->emplace(function, graph).
StructuralFunction ==
    /\ At("structuralAnalysis", "fbody")
    /\ IF ~IsSet({"Dataflows", "Graphs"}) \/ functions[pc.fi] \notin dataflows
       THEN PreconditionNotMet
       ELSE /\ graphs' = graphs \cup {functions[pc.fi]}
            /\ pc' = [pc EXCEPT !.at = "fpoll"]
            /\ UNCHANGED <<liveVars, nameVars, treeChecks, ctx, hooks, functions, dataflows,
                           livenesses, cancelled, outcome, log, nextId,
                           setCount, fired>>

\* livenessAnalysis(context) up to its loop: install a new Livenesses map.
LivenessAnalysis ==
    /\ At("livenessAnalysis", "body")
    /\ IF ~IsSet({"Functions"}) THEN PreconditionNotMet
       ELSE /\ Install("Livenesses")
            /\ livenesses' = {}
            /\ pc' = EnterLoop
            /\ UNCHANGED <<liveVars, nameVars, treeChecks, hooks, functions, dataflows, graphs,
                           cancelled, outcome, log, fired>>

\* A mutant of LivenessFunction: the computed Liveness is not stored.
LivenessFunctionNoEmplace ==
    /\ At("livenessAnalysis", "fbody")
    /\ pc' = NextFunction
    /\ UNCHANGED <<liveVars, nameVars, treeChecks, ctx, hooks, functions, dataflows, graphs,
                   livenesses, cancelled, outcome, log, nextId, setCount,
                   fired>>

\* livenessAnalysis(context, function): LivenessAnalyzer over
\* dataflows()->at(function), graphs()->at(function), hooks, signatures;
\* livenesses()->emplace(function, liveness).  The loop has no poll.
LivenessFunction ==
    /\ At("livenessAnalysis", "fbody")
    /\ IF \/ ~IsSet({"Dataflows", "Module", "Graphs", "Hooks", "Signatures",
                     "Livenesses"})
          \/ functions[pc.fi] \notin dataflows
          \/ functions[pc.fi] \notin graphs
       THEN PreconditionNotMet
       ELSE /\ livenesses' = livenesses \cup {functions[pc.fi]}
            /\ pc' = NextFunction
            /\ UNCHANGED <<liveVars, nameVars, treeChecks, ctx, hooks, functions, dataflows,
                           graphs, cancelled, outcome, log, nextId, setCount,
                           fired>>

\* reconstructTypes: TypeAnalyzer over functions, dataflows, variables,
\* livenesses, hooks, signatures; setTypes.
ReconstructTypes ==
    /\ At("reconstructTypes", "body")
    /\ IF ~IsSet({"Functions", "Dataflows", "Variables", "Livenesses",
                  "Hooks", "Signatures"})
       THEN PreconditionNotMet
       ELSE /\ Install("Types")
            /\ pc' = [pc EXCEPT !.at = "poll"]
            /\ UNCHANGED <<liveVars, nameVars, treeChecks, hooks, functions, dataflows, graphs,
                           livenesses, cancelled, outcome, log, fired>>

\* generateTree: CodeGenerator over module, functions, hooks, signatures,
\* dataflows, variables, graphs, livenesses, types; setTree.
GenerateTree ==
    /\ At("generateTree", "body")
    /\ IF ~IsSet({"Module", "Functions", "Hooks", "Signatures", "Dataflows",
                  "Variables", "Graphs", "Livenesses", "Types"})
       THEN PreconditionNotMet
       ELSE /\ Install("Tree")
            /\ pc' = [pc EXCEPT !.at = "poll"]
            /\ UNCHANGED <<liveVars, nameVars, treeChecks, hooks, functions, dataflows, graphs,
                           livenesses, cancelled, outcome, log, fired>>

\* checkTree (NC_TREE_CHECKS): census of all functions (through hooks), walk
\* of the tree.
CheckTree ==
    /\ At("checkTree", "body")
    /\ IF ~IsSet({"Hooks", "Functions", "Tree"}) THEN PreconditionNotMet
       ELSE /\ pc' = [pc EXCEPT !.at = "poll"]
            /\ UNCHANGED <<liveVars, nameVars, treeChecks, ctx, hooks, functions, dataflows,
                           graphs, livenesses, cancelled, outcome, log,
                           nextId, setCount, fired>>

\* computeTermToFunctionMapping: TermToFunction(functions, hooks).
ComputeTermToFunctionMapping ==
    /\ At("computeTermToFunctionMapping", "body")
    /\ IF ~IsSet({"Functions", "Hooks"}) THEN PreconditionNotMet
       ELSE /\ Install("TermToFunction")
            /\ pc' = [pc EXCEPT !.at = "poll"]
            /\ UNCHANGED <<liveVars, nameVars, treeChecks, hooks, functions, dataflows, graphs,
                           livenesses, cancelled, outcome, log, fired>>

PipeNext ==
    \/ Decompile \/ EnterPhase \/ Poll \/ Complete \/ Cancel \/ InnerCancel
    \/ CreateProgram \/ CreateFunctions
    \/ DataflowAnalysis \/ EnterFunction \/ DataflowFunction \/ LoopPoll
    \/ ReconstructSignatures \/ ReconstructVariables
    \/ StructuralAnalysis \/ StructuralFunction
    \/ LivenessAnalysis \/ LivenessFunction
    \/ ReconstructTypes \/ GenerateTree \/ CheckTree
    \/ ComputeTermToFunctionMapping

Next == PipeNext

Spec == Init /\ [][Next]_vars

\* =========================================================================
\* LivenessAnalyzer
\* =========================================================================

\* --------------------------------------------------- the analysed function
\* The IR of the analysed function.  Statements and terms are named by
\* numbers that stand for their addresses (the order of the numbers is the
\* order of the pointers).
\*
\*   s1  ASSIGNMENT   t1 := t2        t1 MLA write, t2 = BINARY(t3, t4)
\*   s2  ASSIGNMENT   t5 := t7        t5 = *t6 (write), t7 = UNARY(t8), t8 = *t9
\*   s3  JUMP         if t10 goto t13 t10 = CHOICE(t11, t12)
\*   s4  CALL         t14             hook terms: arguments t15, t21; t17
\*   s5  RETURN                       hook term: return value t16
\*   s6  KILL         t20
\*   s7  JUMP         if t18 ... else goto t19
\*   s8  COMMENT
\*   s9  INLINE_ASSEMBLY
\*   s10 RETURN                      hook term: return value t22

Statements == 1..10

Terms == 1..22

NoTerm == [kind |-> "NONE", access |-> "none", a |-> 0, b |-> 0, source |-> 0]

Leaf(k) == [NoTerm EXCEPT !.kind = k, !.access = "read"]

\* ir::Term: kind(), isRead()/isWrite(), source(), and the sub-terms of the
\* compound kinds (a: operand / left / address / preferredTerm,
\* b: right / defaultTerm).
Term(t) ==
    CASE t = 1 -> [kind |-> "MEMORY_LOCATION_ACCESS", access |-> "write",
                   a |-> 0, b |-> 0, source |-> 2]
      [] t = 2 -> [kind |-> "BINARY_OPERATOR", access |-> "read",
                   a |-> 3, b |-> 4, source |-> 0]
      [] t = 4 -> Leaf("INT_CONST")
      [] t = 5 -> [kind |-> "DEREFERENCE", access |-> "write",
                   a |-> 6, b |-> 0, source |-> 7]
      [] t = 7 -> [kind |-> "UNARY_OPERATOR", access |-> "read",
                   a |-> 8, b |-> 0, source |-> 0]
      [] t = 8 -> [kind |-> "DEREFERENCE", access |-> "read",
                   a |-> 9, b |-> 0, source |-> 0]
      [] t = 9 -> Leaf("INTRINSIC")
      [] t = 10 -> [kind |-> "CHOICE", access |-> "read",
                    a |-> 11, b |-> 12, source |-> 0]
      [] t = 12 -> Leaf("UNDEFINED")
      [] t \in {14, 19} -> Leaf("INT_CONST")
      [] t = 17 -> [NoTerm EXCEPT !.kind = "MEMORY_LOCATION_ACCESS",
                                  !.access = "write"]
      [] t = 20 -> [NoTerm EXCEPT !.kind = "MEMORY_LOCATION_ACCESS",
                                  !.access = "kill"]
      [] OTHER -> Leaf("MEMORY_LOCATION_ACCESS")

isRead(t) == Term(t).access = "read"
isWrite(t) == Term(t).access = "write"

NoStatement == [kind |-> "NONE", condition |-> 0, thenAddress |-> 0,
                elseAddress |-> 0, target |-> 0]

\* ir::Statement: kind(), and for a Jump condition(), thenTarget().address(),
\* elseTarget().address(), for a Call target() (0: null).
Statement(s) ==
    CASE s \in {1, 2} -> [NoStatement EXCEPT !.kind = "ASSIGNMENT"]
      [] s = 3 -> [NoStatement EXCEPT !.kind = "JUMP", !.condition = 10,
                                      !.thenAddress = 13]
      [] s = 4 -> [NoStatement EXCEPT !.kind = "CALL", !.target = 14]
      [] s \in {5, 10} -> [NoStatement EXCEPT !.kind = "RETURN"]
      [] s = 6 -> [NoStatement EXCEPT !.kind = "KILL"]
      [] s = 7 -> [NoStatement EXCEPT !.kind = "JUMP", !.condition = 18,
                                      !.elseAddress = 19]
      [] s = 8 -> [NoStatement EXCEPT !.kind = "COMMENT"]
      [] s = 9 -> [NoStatement EXCEPT !.kind = "INLINE_ASSEMBLY"]

\* CallHook::getArgumentTerm of the hook of s4, and
\* ReturnHook::getReturnValueTerm of the hook of the Return ret.
getArgumentTerm(memoryLocation) == IF memoryLocation = "A" THEN 15 ELSE 21
getReturnValueTerm(ret, memoryLocation) == IF ret = 5 THEN 16 ELSE 22

\* The callee ids Hooks hands out: of the call s4 and of the function.
CallCalleeId == 1
FunctionCalleeId == 2

\* ------------------------------------------------- the analyzer's inputs

\* architecture()->isGlobalMemory(location).
isGlobalMemory(memoryLocation) == memoryLocation = "global"

\* dataflow().getMemoryLocation(term) ("none": the invalid location); for a
\* MemoryLocationAccess, access->memoryLocation().
getMemoryLocation(t) == input.memoryLocation[t]

\* dataflow().getDefinitions(term).chunks(), each chunk by its definitions().
getDefinitions(t) == input.definitions[t]

\* dataflow().getValue(term)->abstractValue().isConcrete().
isConcrete(t) == t \in input.concrete

\* signatures().getSignature(calleeId) (present = FALSE: null).
getSignature(calleeId) == input.signatures[calleeId]

\* The reaching definitions dataflow may have computed for a read.
DefinitionChoices == {<<>>, <<<<1>>>>, <<<<5>>>>, <<<<1, 5>>>>,
                      <<<<1>>, <<5>>>>}

\* A Dataflow of the function: t1 may be global, the two dereferences may
\* be unresolved, and the reads t3, t8 and t11 have any of the reaching
\* definitions above (t3 <- t1 and t8 <- t5 close a cycle through source()).
Dataflows ==
    { [memoryLocation |->
          [t \in Terms |->
              IF t = 1 THEN m1 ELSE IF t = 5 THEN m5 ELSE IF t = 8 THEN m8
              ELSE IF Term(t).kind = "MEMORY_LOCATION_ACCESS" THEN "local"
              ELSE "none"],
       definitions |->
          [t \in Terms |->
              IF t = 3 THEN d3 ELSE IF t = 8 THEN d8 ELSE IF t = 11 THEN d11
              ELSE IF t = 15 THEN <<<<17>>>> ELSE <<>>]] :
        m1 \in {"local", "global"}, m5 \in {"none", "local", "global"},
        m8 \in {"none", "local"},
        d3 \in DefinitionChoices, d8 \in DefinitionChoices,
        d11 \in DefinitionChoices }

\* The nodes of a region graph: a basic block node, a Region that is not a
\* Switch, a Switch without boundsCheckNode(), and a Switch whose
\* boundsCheckNode()->basicBlock()->getJump() is jump (the bounds check is a
\* basic block that ends in the jump the Switch makes redundant).
BasicNode ==
    [region |-> FALSE, switch |-> FALSE, boundsCheckNode |-> FALSE, jump |-> 0]

PlainRegion ==
    [region |-> TRUE, switch |-> FALSE, boundsCheckNode |-> FALSE, jump |-> 0]

UncheckedSwitch ==
    [region |-> TRUE, switch |-> TRUE, boundsCheckNode |-> FALSE, jump |-> 0]

SwitchNode(jump) ==
    [region |-> TRUE, switch |-> TRUE, boundsCheckNode |-> TRUE, jump |-> jump]

\* The function analysed in LiveSpec: all of s1..s9, a signature with two
\* arguments for the call and one with a return value for the function,
\* both hooks present, and a Switch region whose bounds check is s7's block.
LiveInit ==
    /\ preferConstants \in BOOLEAN
    /\ \E df \in Dataflows :
       \E concrete \in (IF preferConstants THEN SUBSET {3, 10} ELSE {{}}) :
       \E stale \in {<<>>, <<3>>} :
         /\ input = [statements |-> [i \in 1..9 |-> i],
                     terms |-> [i \in 1..21 |-> i],
                     returns |-> <<5>>,
                     memoryLocation |-> df.memoryLocation,
                     definitions |-> df.definitions,
                     concrete |-> concrete,
                     nodes |-> <<BasicNode, SwitchNode(7), PlainRegion>>,
                     callCalleeId |-> CallCalleeId,
                     functionCalleeId |-> FunctionCalleeId,
                     signatures |-> [c \in {CallCalleeId, FunctionCalleeId} |->
                         IF c = CallCalleeId
                         THEN [present |-> TRUE, arguments |-> <<"A", "B">>,
                               returnValue |-> "none"]
                         ELSE [present |-> TRUE, arguments |-> <<>>,
                               returnValue |-> "R"]],
                     callHook |-> TRUE,
                     returnHook |-> [r \in {5, 10} |-> TRUE]]
         /\ deadJumps = stale
    /\ lpc = "analyze"
    /\ idx = 0
    /\ liveness = {}
    /\ calls = {}
    /\ marked = 0

\* ------------------------------------------------------------ propagation

\* Flattening of chunks(): the definitions in the order the loops visit them.
RECURSIVE Flatten(_)
Flatten(chunks) ==
    IF chunks = <<>> THEN <<>> ELSE Head(chunks) \o Flatten(Tail(chunks))

\* A mutant of Targets: a BinaryOperator propagates to its left operand only.
TargetsLeftOnly(t) ==
    LET term == Term(t)
        dataflowChain ==
            IF isRead(t) THEN Flatten(getDefinitions(t))
            ELSE IF isWrite(t) /\ term.source # 0 THEN <<term.source>>
            ELSE <<>>
    IN  CASE term.kind \in {"INT_CONST", "INTRINSIC", "UNDEFINED"} -> <<>>
          [] term.kind = "MEMORY_LOCATION_ACCESS" -> dataflowChain
          [] term.kind = "DEREFERENCE" ->
                dataflowChain \o (IF getMemoryLocation(t) = "none"
                                  THEN <<term.a>> ELSE <<>>)
          [] term.kind = "UNARY_OPERATOR" -> <<term.a>>
          [] term.kind = "BINARY_OPERATOR" -> <<term.a>>
          [] term.kind = "CHOICE" ->
                IF getDefinitions(term.a) # <<>> THEN <<term.a>>
                ELSE <<term.b>>

\* A mutant of Targets: a read propagates to its first chunk only.
TargetsFirstChunk(t) ==
    LET term == Term(t)
        dataflowChain ==
            IF isRead(t)
            THEN (IF getDefinitions(t) = <<>> THEN <<>>
                  ELSE Head(getDefinitions(t)))
            ELSE IF isWrite(t) /\ term.source # 0 THEN <<term.source>>
            ELSE <<>>
    IN  CASE term.kind \in {"INT_CONST", "INTRINSIC", "UNDEFINED"} -> <<>>
          [] term.kind = "MEMORY_LOCATION_ACCESS" -> dataflowChain
          [] term.kind = "DEREFERENCE" ->
                dataflowChain \o (IF getMemoryLocation(t) = "none"
                                  THEN <<term.a>> ELSE <<>>)
          [] term.kind = "UNARY_OPERATOR" -> <<term.a>>
          [] term.kind = "BINARY_OPERATOR" -> <<term.a, term.b>>
          [] term.kind = "CHOICE" ->
                IF getDefinitions(term.a) # <<>> THEN <<term.a>>
                ELSE <<term.b>>

\* A mutant of Targets: a Choice always propagates to its default term.
TargetsChoiceDefault(t) ==
    LET term == Term(t)
        dataflowChain ==
            IF isRead(t) THEN Flatten(getDefinitions(t))
            ELSE IF isWrite(t) /\ term.source # 0 THEN <<term.source>>
            ELSE <<>>
    IN  CASE term.kind \in {"INT_CONST", "INTRINSIC", "UNDEFINED"} -> <<>>
          [] term.kind = "MEMORY_LOCATION_ACCESS" -> dataflowChain
          [] term.kind = "DEREFERENCE" ->
                dataflowChain \o (IF getMemoryLocation(t) = "none"
                                  THEN <<term.a>> ELSE <<>>)
          [] term.kind = "UNARY_OPERATOR" -> <<term.a>>
          [] term.kind = "BINARY_OPERATOR" -> <<term.a, term.b>>
          [] term.kind = "CHOICE" -> <<term.b>>

\* A mutant of Targets: a Dereference propagates to its address even when
\* its memory location is resolved.
TargetsAddressAlways(t) ==
    LET term == Term(t)
        dataflowChain ==
            IF isRead(t) THEN Flatten(getDefinitions(t))
            ELSE IF isWrite(t) /\ term.source # 0 THEN <<term.source>>
            ELSE <<>>
    IN  CASE term.kind \in {"INT_CONST", "INTRINSIC", "UNDEFINED"} -> <<>>
          [] term.kind = "MEMORY_LOCATION_ACCESS" -> dataflowChain
          [] term.kind = "DEREFERENCE" -> dataflowChain \o <<term.a>>
          [] term.kind = "UNARY_OPERATOR" -> <<term.a>>
          [] term.kind = "BINARY_OPERATOR" -> <<term.a, term.b>>
          [] term.kind = "CHOICE" ->
                IF getDefinitions(term.a) # <<>> THEN <<term.a>>
                ELSE <<term.b>>

\* The switch of propagateLiveness: the terms it passes to makeLive, in the
\* order of the calls.
Targets(t) ==
    LET term == Term(t)
        dataflowChain ==
            IF isRead(t) THEN Flatten(getDefinitions(t))
            ELSE IF isWrite(t) /\ term.source # 0 THEN <<term.source>>
            ELSE <<>>
    IN  CASE term.kind \in {"INT_CONST", "INTRINSIC", "UNDEFINED"} -> <<>>
          [] term.kind = "MEMORY_LOCATION_ACCESS" -> dataflowChain
          [] term.kind = "DEREFERENCE" ->
                dataflowChain \o (IF getMemoryLocation(t) = "none"
                                  THEN <<term.a>> ELSE <<>>)
          [] term.kind = "UNARY_OPERATOR" -> <<term.a>>
          [] term.kind = "BINARY_OPERATOR" -> <<term.a, term.b>>
          [] term.kind = "CHOICE" ->
                IF getDefinitions(term.a) # <<>> THEN <<term.a>>
                ELSE <<term.b>>

\* makeLive(term) called from `caller` and propagateLiveness(term), on the
\* analyzer's state st = [live, calls, marked]; makeLiveAll is the sequence
\* of makeLive calls one propagateLiveness (or one seeding rule) makes.
RECURSIVE makeLive(_, _, _), propagateLiveness(_, _), makeLiveAll(_, _, _)

\* A mutant of propagateLiveness: it gives up once three terms are marked.
propagateLivenessBudget(st, t) ==
    IF st.marked > 2 \/ (preferConstants /\ isRead(t) /\ isConcrete(t))
    THEN st
    ELSE makeLiveAll(st, t, Targets(t))

\* A mutant of makeLive: a term that is live already is propagated again,
\* once for each caller that reaches it.
makeLiveAgain(st, caller, t) ==
    LET called == [st EXCEPT !.calls = @ \cup {<<caller, t>>}]
    IN  IF t \notin st.live
        THEN propagateLiveness([called EXCEPT !.live = @ \cup {t},
                                              !.marked = @ + 1], t)
        ELSE IF <<caller, t>> \notin st.calls
        THEN propagateLiveness([called EXCEPT !.marked = @ + 1], t)
        ELSE called

makeLive(st, caller, t) ==
    LET called == [st EXCEPT !.calls = @ \cup {<<caller, t>>}]
    IN  IF t \notin called.live
        THEN propagateLiveness([called EXCEPT !.live = @ \cup {t},
                                              !.marked = @ + 1], t)
        ELSE called

propagateLiveness(st, t) ==
    IF preferConstants /\ isRead(t) /\ isConcrete(t)
    THEN st
    ELSE makeLiveAll(st, t, Targets(t))

makeLiveAll(st, caller, ts) ==
    IF ts = <<>> THEN st
    ELSE makeLiveAll(makeLive(st, caller, Head(ts)), caller, Tail(ts))

\* --------------------------------------------------------------- seeding

\* std::binary_search(first, last, value) on the vector s.
RECURSIVE lowerBound(_, _, _, _)
lowerBound(s, x, lo, hi) ==
    IF lo >= hi THEN lo
    ELSE LET mid == (lo + hi) \div 2
         IN  IF s[mid] < x THEN lowerBound(s, x, mid + 1, hi)
             ELSE lowerBound(s, x, lo, mid)

binarySearch(s, x) ==
    LET i == lowerBound(s, x, 1, Len(s) + 1)
    IN  i <= Len(s) /\ ~(x < s[i])

\* A mutant of StatementSeeds: the arguments of a call are seeded without
\* asking for the call hook.
StatementSeedsUnhooked(s) ==
    LET statement == Statement(s)
    IN  CASE statement.kind = "JUMP" ->
               IF ~binarySearch(deadJumps, s)
               THEN (IF statement.condition # 0
                     THEN <<statement.condition>> ELSE <<>>)
                    \o (IF statement.thenAddress # 0
                        THEN <<statement.thenAddress>> ELSE <<>>)
                    \o (IF statement.elseAddress # 0
                        THEN <<statement.elseAddress>> ELSE <<>>)
               ELSE <<>>
          [] statement.kind = "CALL" ->
               <<statement.target>>
               \o (IF /\ input.callCalleeId # 0
                      /\ getSignature(input.callCalleeId).present
                   THEN LET arguments ==
                                getSignature(input.callCalleeId).arguments
                        IN  [i \in 1..Len(arguments) |->
                                getArgumentTerm(arguments[i])]
                   ELSE <<>>)
          [] OTHER -> <<>>

\* computeLiveness(const Statement *): the terms it passes to makeLive.
StatementSeeds(s) ==
    LET statement == Statement(s)
    IN  CASE statement.kind = "JUMP" ->
               IF ~binarySearch(deadJumps, s)
               THEN (IF statement.condition # 0
                     THEN <<statement.condition>> ELSE <<>>)
                    \o (IF statement.thenAddress # 0
                        THEN <<statement.thenAddress>> ELSE <<>>)
                    \o (IF statement.elseAddress # 0
                        THEN <<statement.elseAddress>> ELSE <<>>)
               ELSE <<>>
          [] statement.kind = "CALL" ->
               <<statement.target>>
               \o (IF /\ input.callCalleeId # 0
                      /\ getSignature(input.callCalleeId).present
                      /\ input.callHook
                   THEN LET arguments ==
                                getSignature(input.callCalleeId).arguments
                        IN  [i \in 1..Len(arguments) |->
                                getArgumentTerm(arguments[i])]
                   ELSE <<>>)
          [] OTHER -> <<>>

\* A mutant of TermSeeds: every write to memory is seeded, wherever it
\* goes.
TermSeedsEveryWrite(t) ==
    LET term == Term(t)
    IN  CASE term.kind = "MEMORY_LOCATION_ACCESS" ->
               IF isWrite(t) THEN <<t>> ELSE <<>>
          [] term.kind = "DEREFERENCE" ->
               IF isWrite(t) THEN <<t>> ELSE <<>>
          [] OTHER -> <<>>

\* computeLiveness(const Term *): the terms it passes to makeLive.
TermSeeds(t) ==
    LET term == Term(t)
    IN  CASE term.kind = "MEMORY_LOCATION_ACCESS" ->
               IF isWrite(t) /\ isGlobalMemory(getMemoryLocation(t))
               THEN <<t>> ELSE <<>>
          [] term.kind = "DEREFERENCE" ->
               IF /\ isWrite(t)
                  /\ \/ getMemoryLocation(t) = "none"
                     \/ isGlobalMemory(getMemoryLocation(t))
               THEN <<t>> ELSE <<>>
          [] OTHER -> <<>>

\* A mutant of ReturnSeeds: the signature is not asked whether it has a
\* return value.
ReturnSeedsAnySignature ==
    IF /\ input.functionCalleeId # 0
       /\ getSignature(input.functionCalleeId).present
    THEN LET returnValue == getSignature(input.functionCalleeId).returnValue
             hooked == SelectSeq(input.returns,
                                LAMBDA r : input.returnHook[r])
         IN  [i \in 1..Len(hooked) |->
                 getReturnValueTerm(hooked[i], returnValue)]
    ELSE <<>>

\* The tail of analyze: the return value terms it passes to makeLive.
ReturnSeeds ==
    IF /\ input.functionCalleeId # 0
       /\ getSignature(input.functionCalleeId).present
       /\ getSignature(input.functionCalleeId).returnValue # "none"
    THEN LET returnValue == getSignature(input.functionCalleeId).returnValue
             hooked == SelectSeq(input.returns,
                                LAMBDA r : input.returnHook[r])
         IN  [i \in 1..Len(hooked) |->
                 getReturnValueTerm(hooked[i], returnValue)]
    ELSE <<>>

\* The analyzer's state as the recursion sees it, and its write-back.
LiveState == [live |-> liveness, calls |-> calls, marked |-> marked]

\* The callers of makeLive outside propagateLiveness, as they are recorded
\* in calls (a propagating term is recorded by its own number):
\* computeLiveness(statement), computeLiveness(term), the tail of analyze.
ByStatement(s) == 0 - s
ByTerm(t) == 0 - (100 + t)
ByReturns == 0 - 200

\* A mutant of Seed: the seeding starts from an emptied live set.
SeedAfresh(caller, ts) ==
    LET st == makeLiveAll([LiveState EXCEPT !.live = {}], caller, ts)
    IN  /\ liveness' = st.live
        /\ calls' = st.calls
        /\ marked' = st.marked

Seed(caller, ts) ==
    LET st == makeLiveAll(LiveState, caller, ts)
    IN  /\ liveness' = st.live
        /\ calls' = st.calls
        /\ marked' = st.marked

\* ---------------------------------------------------------------- analyze

\* Where analyze goes on after the loop at `at` has reached index i.
After(at, i) ==
    IF at = "regions" /\ i <= Len(input.nodes) THEN <<"regions", i>>
    ELSE IF at = "regions" THEN <<"sort", 0>>
    ELSE IF at = "statements" /\ i <= Len(input.statements)
    THEN <<"statements", i>>
    ELSE IF at \in {"statements", "terms"}
            /\ (IF at = "terms" THEN i ELSE 1) <= Len(input.terms)
    THEN <<"terms", IF at = "terms" THEN i ELSE 1>>
    ELSE <<"returns", 0>>

\* A mutant of Analyze: the list of an earlier run is not cleared.
AnalyzeKeepsList ==
    /\ lpc = "analyze"
    /\ lpc' = After("regions", 1)[1]
    /\ idx' = After("regions", 1)[2]
    /\ UNCHANGED <<pipeVars, nameVars, preferConstants, input, deadJumps,
                   liveness, calls, marked>>

\* deadJumps_.clear().
Analyze ==
    /\ lpc = "analyze"
    /\ deadJumps' = <<>>
    /\ lpc' = After("regions", 1)[1]
    /\ idx' = After("regions", 1)[2]
    /\ UNCHANGED <<pipeVars, nameVars, preferConstants, input, liveness, calls, marked>>

\* One iteration of the loop over regionGraph().nodes().
VisitNode ==
    /\ lpc = "regions"
    /\ LET node == input.nodes[idx]
       IN  deadJumps' = IF node.region /\ node.switch /\ node.boundsCheckNode
                        THEN Append(deadJumps, node.jump)
                        ELSE deadJumps
    /\ lpc' = After("regions", idx + 1)[1]
    /\ idx' = After("regions", idx + 1)[2]
    /\ UNCHANGED <<pipeVars, nameVars, preferConstants, input, liveness, calls, marked>>

\* A mutant of SortDeadJumps: the list is left in the order of the nodes.
SortDeadJumpsNot ==
    /\ lpc = "sort"
    /\ lpc' = After("statements", 1)[1]
    /\ idx' = After("statements", 1)[2]
    /\ UNCHANGED <<pipeVars, nameVars, preferConstants, input, deadJumps, liveness,
                   calls, marked>>

\* std::sort(deadJumps_.begin(), deadJumps_.end()); then the census.
SortDeadJumps ==
    /\ lpc = "sort"
    /\ deadJumps' = SortSeq(deadJumps, LAMBDA x, y : x < y)
    /\ lpc' = After("statements", 1)[1]
    /\ idx' = After("statements", 1)[2]
    /\ UNCHANGED <<pipeVars, nameVars, preferConstants, input, liveness, calls, marked>>

\* computeLiveness(statement) of the next statement of the census.
ComputeLivenessStatement ==
    /\ lpc = "statements"
    /\ Seed(ByStatement(input.statements[idx]),
            StatementSeeds(input.statements[idx]))
    /\ lpc' = After("statements", idx + 1)[1]
    /\ idx' = After("statements", idx + 1)[2]
    /\ UNCHANGED <<pipeVars, nameVars, preferConstants, input, deadJumps>>

\* computeLiveness(term) of the next term of the census.
ComputeLivenessTerm ==
    /\ lpc = "terms"
    /\ Seed(ByTerm(input.terms[idx]), TermSeeds(input.terms[idx]))
    /\ lpc' = After("terms", idx + 1)[1]
    /\ idx' = After("terms", idx + 1)[2]
    /\ UNCHANGED <<pipeVars, nameVars, preferConstants, input, deadJumps>>

\* The return value seeding that ends analyze.
SeedReturnValues ==
    /\ lpc = "returns"
    /\ Seed(ByReturns, ReturnSeeds)
    /\ lpc' = "done"
    /\ idx' = 0
    /\ UNCHANGED <<pipeVars, nameVars, preferConstants, input, deadJumps>>

LiveNext ==
    \/ Analyze \/ VisitNode \/ SortDeadJumps
    \/ ComputeLivenessStatement \/ ComputeLivenessTerm \/ SeedReturnValues

\* decompile is not under observation in LiveSpec.
PipeIdle ==
    /\ treeChecks = FALSE
    /\ pc = [phase |-> 0, at |-> "idle", fi |-> 0]
    /\ ctx = [s \in Slots |-> 0]
    /\ hooks = [conventions |-> 0, signatures |-> 0]
    /\ functions = <<>>
    /\ dataflows = {}
    /\ graphs = {}
    /\ livenesses = {}
    /\ cancelled = FALSE
    /\ outcome = "idle"
    /\ log = <<>>
    /\ nextId = 0
    /\ setCount = [s \in Slots |-> 0]
    /\ fired = NotFired

LiveSpecInit == LiveInit /\ PipeIdle /\ NameIdle

LiveSpec == LiveSpecInit /\ [][LiveNext]_vars

\* ------------------------------------------------- functions of other shapes
\* A second family of analysed functions, for the seeding rules: the census
\* in either order or of a leaf function (s1 and s5 only), Switch regions
\* over either jump in any order of the nodes, and a call and a function
\* for which Hooks and Signatures may lack the callee id, the signature,
\* the return value or a hook.

Reverse(s) == [i \in 1..Len(s) |-> s[Len(s) + 1 - i]]

FullCensus ==
    [statements |-> [i \in 1..10 |-> i], terms |-> [i \in 1..22 |-> i],
     returns |-> <<5, 10>>]

ReversedCensus ==
    [statements |-> Reverse(FullCensus.statements),
     terms |-> Reverse(FullCensus.terms),
     returns |-> Reverse(FullCensus.returns)]

LeafCensus ==
    [statements |-> <<1, 5>>, terms |-> <<1, 2, 3, 4>>, returns |-> <<5>>]

RegionGraphs ==
    { <<BasicNode>>,
      <<UncheckedSwitch, PlainRegion>>,
      <<SwitchNode(3)>>,
      <<SwitchNode(7), BasicNode, SwitchNode(3)>>,
      <<SwitchNode(3), SwitchNode(7)>>,
      <<PlainRegion, SwitchNode(7), UncheckedSwitch>> }

\* What Hooks and Signatures know of the call s4 and of the function.
CallInfos == [calleeId : {0, CallCalleeId}, signature : BOOLEAN,
              hook : BOOLEAN]

FunctionInfos == [calleeId : {0, FunctionCalleeId}, signature : BOOLEAN,
                  returnValue : {"none", "R"},
                  returnHook : [{5, 10} -> BOOLEAN]]

KnownCall == [calleeId |-> CallCalleeId, signature |-> TRUE, hook |-> TRUE]

KnownFunction ==
    [calleeId |-> FunctionCalleeId, signature |-> TRUE, returnValue |-> "R",
     returnHook |-> [r \in {5, 10} |-> TRUE]]

\* The Dataflows of the second family.
CaseDataflows ==
    { df \in Dataflows :
        /\ df.memoryLocation[5] = "none"
        /\ df.memoryLocation[8] = "local"
        /\ df.definitions[3] = <<<<1>>>>
        /\ df.definitions[8] = <<<<5>>>>
        /\ df.definitions[11] \in {<<>>, <<<<5>>>>} }

LeafDataflows ==
    { df \in Dataflows :
        /\ df.memoryLocation[5] = "local"
        /\ df.memoryLocation[8] = "local"
        /\ df.definitions[3] \in {<<>>, <<<<1>>>>}
        /\ df.definitions[8] = <<>>
        /\ df.definitions[11] = <<>> }

CaseInput(census, df, nodes, call, function, concrete) ==
    [statements |-> census.statements,
     terms |-> census.terms,
     returns |-> census.returns,
     memoryLocation |-> df.memoryLocation,
     definitions |-> df.definitions,
     concrete |-> concrete,
     nodes |-> nodes,
     callCalleeId |-> call.calleeId,
     functionCalleeId |-> function.calleeId,
     signatures |-> [c \in {CallCalleeId, FunctionCalleeId} |->
         IF c = CallCalleeId
         THEN [present |-> call.signature, arguments |-> <<"A", "B">>,
               returnValue |-> "none"]
         ELSE [present |-> function.signature, arguments |-> <<>>,
               returnValue |-> function.returnValue]],
     callHook |-> call.hook,
     returnHook |-> function.returnHook]

CaseInputs(concrete) ==
    { CaseInput(census, df, nodes, KnownCall, KnownFunction, concrete) :
        census \in {FullCensus, ReversedCensus}, df \in CaseDataflows,
        nodes \in RegionGraphs }
    \cup
    { CaseInput(FullCensus, df, <<SwitchNode(7)>>, call, KnownFunction,
                concrete) :
        df \in CaseDataflows, call \in CallInfos }
    \cup
    { CaseInput(FullCensus, df, <<SwitchNode(7)>>, KnownCall, function,
                concrete) :
        df \in CaseDataflows, function \in FunctionInfos }
    \cup
    { CaseInput(LeafCensus, df, <<BasicNode>>, KnownCall, function,
                concrete) :
        df \in LeafDataflows, function \in FunctionInfos }

CaseInit ==
    /\ preferConstants \in BOOLEAN
    /\ \E concrete \in (IF preferConstants THEN {{3, 10}} ELSE {{}}) :
         input \in CaseInputs(concrete)
    /\ deadJumps \in {<<>>, <<3>>}
    /\ lpc = "analyze"
    /\ idx = 0
    /\ liveness = {}
    /\ calls = {}
    /\ marked = 0

CaseSpecInit == CaseInit /\ PipeIdle /\ NameIdle

CaseSpec == CaseSpecInit /\ [][LiveNext]_vars

\* =========================================================================
\* MasterAnalyzer::createFunctions and pickFunctionName
\* =========================================================================

\* Strings are sequences of characters.
FuncPrefix == <<"f", "u", "n", "c", "_">>

NoEntryPrefix == FuncPrefix \o <<"n", "o", "e", "n", "t", "r", "y", "_">>

\* The symbol names a module may hold for an address ("" : no symbol).
PlainSymbol == <<"f", "o", "o">>
MangledSymbol == <<"_", "Z", "3", "f", "o", "o", "i">>
DottedSymbol == <<"a", ".", "b">>
DecoratedSymbol == <<"?", "f", "@", "@">>

SymbolNames == {<<>>, PlainSymbol, MangledSymbol, DottedSymbol,
                DecoratedSymbol}

\* The entry addresses of the functions (NoAddress: the entry has none).
NoAddress == 0 - 1

Addresses == {0, 255, 48879}

\* likec::Tree::cleanName: the characters that may not appear in a C
\* identifier are stripped.
IdentifierChar(c) == c \notin {".", "?", "@", "(", ")", " "}

cleanName(name) == SelectSeq(name, IdentifierChar)

\* Demangler::demangle: the signature a mangled name encodes; any other
\* name is returned as it is.
demangle(name) ==
    CASE name = MangledSymbol -> <<"f", "o", "o", "(", "i", "n", "t", ")">>
      [] name = DecoratedSymbol -> <<"f", "(", ")">>
      [] OTHER -> name

\* QString::contains(QChar).
contains(string, c) == \E k \in 1..Len(string) : string[k] = c

\* QString::arg(value, 0, 16): the number in base 16, lowercase, as short
\* as it can be.
HexDigits == <<"0", "1", "2", "3", "4", "5", "6", "7", "8", "9",
               "a", "b", "c", "d", "e", "f">>

RECURSIVE arg16(_)
arg16(value) ==
    IF value < 16 THEN <<HexDigits[value + 1]>>
    ELSE arg16(value \div 16) \o <<HexDigits[(value % 16) + 1]>>

\* reinterpret_cast<std::uintptr_t>(function) of the i-th function object:
\* objects that live at the same time lie at different addresses.
addressOf(i) == heapBase + 64 * i

\* ir::Function as makeFunctions leaves it: entry() (null or a basic block),
\* entry()->address() (NoAddress: none), an empty name, comment().
FunctionShapes ==
    { [entry |-> e, address |-> a, name |-> <<>>, comment |-> c] :
        e \in BOOLEAN, a \in Addresses \cup {NoAddress},
        c \in {<<>>, <<"x", " ">>} }

MadeFunctions ==
    { f \in FunctionShapes : ~f.entry => f.address = NoAddress }

\* A mutant of pickFunctionName: the symbol goes into the comment even when
\* it is the clean name itself.
pickFunctionNameAlwaysComments(function, i) ==
    IF function.entry /\ function.address # NoAddress
    THEN LET name == symbols[function.address]
         IN  IF name # <<>>
             THEN LET demangledName == demangle(name)
                  IN  [function EXCEPT
                         !.name = cleanName(name),
                         !.comment =
                             @ \o name
                               \o (IF contains(demangledName, "(")
                                   THEN demangledName ELSE <<>>)]
             ELSE [function EXCEPT
                     !.name = FuncPrefix \o arg16(function.address)]
    ELSE [function EXCEPT !.name = NoEntryPrefix \o arg16(addressOf(i))]

\* pickFunctionName(context, function), function being the i-th object.
pickFunctionName(function, i) ==
    IF function.entry /\ function.address # NoAddress
    THEN LET name == symbols[function.address]
         IN  IF name # <<>>
             THEN LET demangledName == demangle(name)
                  IN  [function EXCEPT
                         !.name = cleanName(name),
                         !.comment =
                             @ \o (IF name # cleanName(name)
                                   THEN name ELSE <<>>)
                               \o (IF contains(demangledName, "(")
                                   THEN demangledName ELSE <<>>)]
             ELSE [function EXCEPT
                     !.name = FuncPrefix \o arg16(function.address)]
    ELSE [function EXCEPT !.name = NoEntryPrefix \o arg16(addressOf(i))]

\* The module's symbol table and the allocator are given; createFunctions
\* has logged its label and is about to call makeFunctions.
NameInit ==
    /\ symbols \in [Addresses -> SymbolNames]
    /\ symbols[0] = <<>>
    /\ heapBase \in {4096, 43981}
    /\ produced = <<>>
    /\ made = <<>>
    /\ npc = [at |-> "make", i |-> 0]

\* FunctionsGenerator().makeFunctions(*context.program(), *functions).
MakeFunctions ==
    /\ npc.at = "make"
    /\ \E n \in 0..MaxFunctions :
       \E list \in [1..n -> MadeFunctions] :
         /\ made' = list
         /\ produced' = list
         /\ npc' = IF n = 0 THEN [at |-> "set", i |-> 0]
                   ELSE [at |-> "pick", i |-> 1]
    /\ UNCHANGED <<pipeVars, liveVars, symbols, heapBase>>

\* One iteration of the foreach loop: pickFunctionName(context, function).
PickFunctionName ==
    /\ npc.at = "pick"
    /\ made' = [made EXCEPT ![npc.i] = pickFunctionName(@, npc.i)]
    /\ npc' = IF npc.i = Len(made) THEN [at |-> "set", i |-> 0]
              ELSE [npc EXCEPT !.i = @ + 1]
    /\ UNCHANGED <<pipeVars, liveVars, symbols, heapBase, produced>>

\* context.setFunctions(std::move(functions)).
SetFunctions ==
    /\ npc.at = "set"
    /\ npc' = [at |-> "done", i |-> 0]
    /\ UNCHANGED <<pipeVars, liveVars, symbols, heapBase, produced, made>>

NameNext == MakeFunctions \/ PickFunctionName \/ SetFunctions

NameSpecInit == NameInit /\ PipeIdle /\ LiveIdle

NameSpec == NameSpecInit /\ [][NameNext]_vars

\* =========================================================================
\* Properties of decompile (checked under Spec)
\* =========================================================================

\* The labels of the phases begun so far, in the order they were logged.
StartedPhases ==
    LET phaseLog == SelectSeq(log, LAMBDA e :
                        e.fn = 0 /\ e.msg \notin {"Decompiling.",
                                                  "Decompilation completed."})
    IN  [i \in 1..Len(phaseLog) |-> phaseLog[i].msg]

\* The order of section 2 of the specification, as log labels.
ExpectedOrder ==
    <<"Creating intermediate representation of the program.",
      "Creating functions.",
      "Dataflow analysis.",
      "Reconstructing function signatures.",
      "Dataflow analysis.",
      "Reconstructing variables.",
      "Structural analysis.",
      "Liveness analysis.",
      "Reconstructing types.",
      "Generating AST.">>
    \o (IF treeChecks THEN <<"Checking AST.">> ELSE <<>>)
    \o <<"Computing term to function mapping.">>

\* C1: the phases start in the fixed order createProgram, createFunctions,
\* dataflowAnalysis, reconstructSignatures, dataflowAnalysis,
\* reconstructVariables, structuralAnalysis, livenessAnalysis,
\* reconstructTypes, generateTree, [checkTree], computeTermToFunctionMapping:
\* what has started is always a prefix of that order, a phase starts only
\* once the one before it has finished and been polled, and a completed run
\* has started each exactly as often as the order lists it (dataflowAnalysis
\* twice, around reconstructSignatures, every other phase once).
C1_PhaseOrder ==
    /\ Len(StartedPhases) <= Len(ExpectedOrder)
    /\ StartedPhases = SubSeq(ExpectedOrder, 1, Len(StartedPhases))
    /\ Len(StartedPhases) = (IF pc.at = "entry" THEN 0
                             ELSE IF pc.at = "call" THEN pc.phase - 1
                             ELSE pc.phase)
    /\ outcome = "completed" => StartedPhases = ExpectedOrder

C1_Witness ==
    /\ outcome = "completed" /\ treeChecks /\ ~cancelled
    /\ Len(functions) >= 2

\* C2: whenever a Hooks object is installed, it references exactly the
\* Signatures and the Conventions objects installed in Context.
C2_HooksOverInstalledStores ==
    ctx["Hooks"] # 0 =>
        /\ hooks.signatures = ctx["Signatures"]
        /\ hooks.conventions = ctx["Conventions"]

WriteOnceSlots == {"Program", "Functions", "Dataflows", "Variables", "Graphs",
                   "Livenesses", "Types", "Tree", "TermToFunction"}

C4_CancelStopsAtNextPoll ==
    (cancelled /\ fired.phase <= NumPhases) =>
        /\ outcome \in {"running", "Cancelled"}
        /\ pc.phase <= (IF fired.phase = 0 THEN 1 ELSE fired.phase)
        /\ Len(StartedPhases) <= (IF fired.phase = 0 THEN 1 ELSE fired.phase)
        /\ \A i \in 1..Len(log) : log[i].msg # "Decompilation completed."

C4_Witness ==
    /\ outcome = "Cancelled"
    /\ fired.phase = NumPhases /\ fired.at = "poll"
    /\ ctx["TermToFunction"] # 0

\* C5: in every per-function loop, once the token has fired no further
\* function is begun: none when it fired while a function was in progress,
\* at most the one about to be called otherwise.
C5_LoopsPollBetweenFunctions ==
    cancelled =>
        Cardinality({i \in (fired.logLen + 1)..Len(log) : log[i].fn # 0})
            <= (IF fired.at \in {"fbody", "fpoll"} THEN 0 ELSE 1)

\* C6: a run that returns successfully leaves every slot of Context set and
\* an entry for every function in Dataflows, Graphs and Livenesses.
C6_SuccessPopulated ==
    outcome = "completed" =>
        /\ IsSet(Slots)
        /\ \A i \in 1..Len(functions) :
              /\ functions[i] \in dataflows
              /\ functions[i] \in graphs
              /\ functions[i] \in livenesses

C6_Witness ==
    /\ outcome = "completed"
    /\ Len(functions) >= 2
    /\ setCount["Conventions"] = 1 /\ setCount["Signatures"] = 2

\* C7: no phase of decompile reads a slot, or an entry of Dataflows or
\* Graphs, that has not been set.
C7_NoUnsetRead == outcome # "PreconditionNotMet"

C7_Witness ==
    /\ ctx["Tree"] # 0 /\ pc.at = "poll"
    /\ Len(functions) >= 1 /\ livenesses = {functions[i] : i \in 1..Len(functions)}
    /\ setCount["Signatures"] = 2

\* The slots a phase installs (dataflowAnalysis installs Signatures and
\* Conventions only when the caller has not).
SlotsOf(p) ==
    CASE p = "createProgram" -> {"Program"}
      [] p = "createFunctions" -> {"Functions"}
      [] p = "dataflowAnalysis" ->
            {"Signatures", "Conventions", "Hooks", "Dataflows"}
      [] p = "reconstructSignatures" -> {"Signatures"}
      [] p = "reconstructVariables" -> {"Variables"}
      [] p = "structuralAnalysis" -> {"Graphs"}
      [] p = "livenessAnalysis" -> {"Livenesses"}
      [] p = "reconstructTypes" -> {"Types"}
      [] p = "generateTree" -> {"Tree"}
      [] p = "checkTree" -> {}
      [] p = "computeTermToFunctionMapping" -> {"TermToFunction"}

\* The functions whose analysis had finished when the loop of the current
\* phase was left.
Finished ==
    LET k == CASE pc.at = "fpoll" -> pc.fi
               [] pc.at = "fbody" -> pc.fi - 1
               [] pc.at = "fcall" -> pc.fi - 1
               [] pc.at = "poll" -> Len(functions)
               [] OTHER -> 0
    IN  {functions[i] : i \in 1..k}

\* The Context of a cancelled run: every slot of a phase that completed is
\* set, every slot that only phases never begun install is unset, or is one
\* of `presets` as the caller had installed it, and the Dataflows or Graphs
\* map of an interrupted loop has entries exactly for the functions
\* analysed before the poll that aborted.
CancelledContext(presets) ==
    LET done == IF pc.at = "poll" THEN pc.phase ELSE pc.phase - 1
        completed == UNION {SlotsOf(Phases[i]) : i \in 1..done}
        begun == UNION {SlotsOf(Phases[i]) : i \in 1..pc.phase}
    IN  /\ \A s \in completed : ctx[s] # 0
        /\ \A s \in Slots \ (begun \cup {"Module", "Instructions"}) :
              ctx[s] = 0 \/ (s \in presets /\ setCount[s] = 0)
        /\ Current = "dataflowAnalysis" => dataflows = Finished
        /\ Current = "structuralAnalysis" => graphs = Finished

\* C14 (as claimed): in a cancelled run every slot of a completed phase is
\* set, every slot of a phase that never started is unset, and the map
\* under construction holds exactly the functions analysed so far.
C14_NoRollbackUnset ==
    outcome = "Cancelled" => CancelledContext({})

\* C14 (amended): an abort undoes nothing.  The step that ends the run as
\* Cancelled leaves every slot and every map as it was; and in a cancelled
\* run the Context is as claimed, except that Signatures and Conventions,
\* when the caller had installed them before the run, are set although the
\* phases that install them never started.
C14_NoRollback ==
    /\ [][outcome' = "Cancelled" =>
            /\ ctx' = ctx /\ hooks' = hooks /\ functions' = functions
            /\ dataflows' = dataflows /\ graphs' = graphs
            /\ livenesses' = livenesses]_vars
    /\ [](outcome = "Cancelled" =>
            CancelledContext({"Signatures", "Conventions"}))

\* The second dataflow pass was aborted by the poll after its first
\* function, of two.
C14_Witness ==
    /\ outcome = "Cancelled"
    /\ pc.phase = 5 /\ pc.at = "fpoll" /\ pc.fi = 1
    /\ Len(functions) = 2
    /\ dataflows = {functions[1]}
    /\ ctx["Signatures"] # 0 /\ ctx["Variables"] = 0

\* decompile is about to run code that reads context.hooks(): the
\* per-function analysis of a dataflow pass or of the liveness phase, or
\* the body of a phase that hands *context.hooks() to its analyzer.
UsesHooks ==
    \/ At("dataflowAnalysis", "fbody")
    \/ At("livenessAnalysis", "fbody")
    \/ \E p \in {"reconstructSignatures", "reconstructTypes", "generateTree",
                 "checkTree", "computeTermToFunctionMapping"} :
          At(p, "body")

\* C22: wherever decompile uses the installed Hooks, that Hooks was built
\* over the Signatures and the Conventions installed in Context at that
\* moment (for the liveness analyzer: hooks() and signatures() are over one
\* store); and every use after reconstructSignatures is a use of the Hooks
\* the second dataflow pass has built, over the reconstructed Signatures.
C22_HooksConsistentWhereUsed ==
    (UsesHooks /\ ctx["Hooks"] # 0) =>
        /\ hooks.signatures = ctx["Signatures"]
        /\ hooks.conventions = ctx["Conventions"]
        /\ pc.phase > 4 =>
              /\ setCount["Hooks"] = 2
              /\ ctx["Hooks"] > ctx["Signatures"]
              /\ setCount["Signatures"] >= 1

\* The liveness analysis of a function is about to run in a run that began
\* without Signatures: dataflowAnalysis installed an empty store,
\* reconstructSignatures replaced it, and the second pass rebuilt Hooks.
C22_Witness ==
    /\ At("livenessAnalysis", "fbody")
    /\ setCount["Signatures"] = 2 /\ setCount["Hooks"] = 2
    /\ hooks.signatures = ctx["Signatures"]
    /\ IsSet({"Hooks", "Signatures", "Conventions", "Graphs"})

\* =========================================================================
\* Properties of createFunctions (checked under NameSpec)
\* =========================================================================

\* The value a string of hexadecimal digits denotes.
RECURSIVE FromHex(_)
FromHex(digits) ==
    IF digits = <<>> THEN 0
    ELSE LET last == digits[Len(digits)]
             d == CHOOSE v \in 0..15 : HexDigits[v + 1] = last
         IN  16 * FromHex(SubSeq(digits, 1, Len(digits) - 1)) + d

\* One or more of the characters 0-9a-f, without a leading zero.
LowerHex(digits) ==
    /\ digits # <<>>
    /\ \A k \in 1..Len(digits) :
          \E v \in 0..15 : HexDigits[v + 1] = digits[k]
    /\ Len(digits) > 1 => digits[1] # "0"

\* name is prefix followed by a lowercase hexadecimal number.
HexNamed(name, prefix) ==
    /\ Len(name) > Len(prefix)
    /\ SubSeq(name, 1, Len(prefix)) = prefix
    /\ LowerHex(SubSeq(name, Len(prefix) + 1, Len(name)))

HexOf(name, prefix) == FromHex(SubSeq(name, Len(prefix) + 1, Len(name)))

\* The functions pickFunctionName has been called for.
Picked ==
    CASE npc.at = "pick" -> 1..(npc.i - 1)
      [] npc.at \in {"set", "done"} -> 1..Len(made)
      [] OTHER -> {}

\* Which of the three cases a function falls under.
NameCase(f) ==
    IF f.entry /\ f.address # NoAddress
    THEN (IF symbols[f.address] # <<>> THEN "symbol" ELSE "address")
    ELSE "noentry"

\* C15: every function pickFunctionName was called for is named by its
\* case.  With a symbol for the entry address: the name is the clean name of
\* the symbol, and the comment has grown by the symbol iff the symbol is
\* not the clean name, then by the demangled symbol iff that contains '('.
\* With an entry address but no symbol: the name is func_ and the address in
\* lowercase hexadecimal without leading zeros, the comment is as before.
\* Without an entry address: the name is func_noentry_ and a lowercase
\* hexadecimal number that no other function of the list has, the comment
\* is as before.  When createFunctions is over this holds of every function.
C15_NamedByCase ==
    /\ npc.at \in {"set", "done"} => Picked = DOMAIN made
    /\ \A i \in Picked :
        LET before == produced[i]
            f == made[i]
        IN  CASE NameCase(before) = "symbol" ->
                   LET symbol == symbols[before.address]
                   IN  /\ f.name = cleanName(symbol)
                       /\ f.comment =
                            before.comment
                            \o (IF symbol # f.name THEN symbol ELSE <<>>)
                            \o (IF contains(demangle(symbol), "(")
                                THEN demangle(symbol) ELSE <<>>)
              [] NameCase(before) = "address" ->
                   /\ HexNamed(f.name, FuncPrefix)
                   /\ ~HexNamed(f.name, NoEntryPrefix)
                   /\ HexOf(f.name, FuncPrefix) = before.address
                   /\ f.comment = before.comment
              [] NameCase(before) = "noentry" ->
                   /\ HexNamed(f.name, NoEntryPrefix)
                   /\ f.comment = before.comment
                   /\ \A j \in Picked \ {i} :
                        NameCase(produced[j]) = "noentry" =>
                            made[j].name # f.name

\* Two functions: the one at 0xff, whose symbol _Z3fooi is its name and
\* whose comment has grown by foo(int) only, and one without entry, named
\* after the address of the second function object.
C15_Witness ==
    /\ npc.at = "done" /\ Len(made) = 2
    /\ symbols[255] = MangledSymbol /\ symbols[48879] = DecoratedSymbol
    /\ produced[1].address = 255 /\ produced[1].comment # <<>>
    /\ made[1].name = MangledSymbol
    /\ made[1].comment
         = <<"x", " ", "f", "o", "o", "(", "i", "n", "t", ")">>
    /\ ~produced[2].entry
    /\ made[2].name = NoEntryPrefix \o <<"1", "0", "8", "0">>

\* =========================================================================
\* Properties of LivenessAnalyzer::analyze (checked under LiveSpec)
\* =========================================================================

\* analyze has returned.
Analyzed == lpc = "done"

\* C8: in a build without the prefer-constants policy, the final live set
\* is closed under the structural rules: both operands of a live
\* BinaryOperator, the operand of a live UnaryOperator, the source of a live
\* write MemoryLocationAccess or Dereference that has one, and the address
\* of a live Dereference without a resolved memory location are live.
C8_StructuralClosure ==
    (Analyzed /\ ~preferConstants) =>
        \A t \in liveness :
            LET term == Term(t)
            IN  /\ term.kind = "BINARY_OPERATOR" =>
                      term.a \in liveness /\ term.b \in liveness
                /\ term.kind = "UNARY_OPERATOR" => term.a \in liveness
                /\ ( /\ term.kind \in {"MEMORY_LOCATION_ACCESS", "DEREFERENCE"}
                     /\ term.access = "write"
                     /\ term.source # 0 ) => term.source \in liveness
                /\ ( /\ term.kind = "DEREFERENCE"
                     /\ input.memoryLocation[t] = "none" ) =>
                      term.a \in liveness

C8_Witness ==
    /\ Analyzed /\ ~preferConstants
    /\ {1, 2, 5, 7, 8} \subseteq liveness
    /\ input.memoryLocation[5] = "none"
    /\ input.memoryLocation[8] = "none"

\* The defining terms of every chunk of t's reaching definitions.
DefiningTerms(t) ==
    UNION { {input.definitions[t][i][j] :
                j \in 1..Len(input.definitions[t][i])} :
            i \in 1..Len(input.definitions[t]) }

\* C9 (as claimed): after the analysis, every defining term in every chunk
\* of the reaching definitions of every live read is live.
C9_DefinitionsOfLiveReads ==
    Analyzed =>
        \A t \in liveness :
            Term(t).access = "read" => DefiningTerms(t) \subseteq liveness

\* C9 (amended): the same, except for a read whose dataflow value is
\* concrete in a build with the prefer-constants policy, at which
\* propagation stops.
C9_DefinitionsOfLiveReadsUnlessConstant ==
    Analyzed =>
        \A t \in liveness :
            ( /\ Term(t).access = "read"
              /\ ~(preferConstants /\ t \in input.concrete) ) =>
                DefiningTerms(t) \subseteq liveness

C9_Witness ==
    /\ Analyzed /\ preferConstants
    /\ 3 \in liveness /\ 3 \notin input.concrete
    /\ input.definitions[3] = <<<<1>>, <<5>>>>
    /\ input.memoryLocation[1] = "local"
    /\ input.memoryLocation[5] = "local"
    /\ input.definitions[11] = <<<<1>>>>

\* The sub-term of a Choice that the rule picks, and the other one.
Chosen(c) ==
    IF input.definitions[Term(c).a] # <<>> THEN Term(c).a ELSE Term(c).b

NotChosen(c) ==
    IF input.definitions[Term(c).a] # <<>> THEN Term(c).b ELSE Term(c).a

\* C10 (as claimed): after the analysis, every live Choice has made live
\* the sub-term picked by the rule (the preferred term if it has reaching
\* definitions, else the default term), which is live, and has not made
\* live the other one.
C10_ChoicePicksOne ==
    Analyzed =>
        \A c \in liveness :
            Term(c).kind = "CHOICE" =>
                /\ Chosen(c) \in liveness
                /\ <<c, Chosen(c)>> \in calls
                /\ <<c, NotChosen(c)>> \notin calls

\* C10 (amended): a live Choice never makes live the sub-term the rule does
\* not pick, and it makes live the one the rule picks unless the build has
\* the prefer-constants policy and the Choice's dataflow value is concrete.
C10_ChoicePicksOneUnlessConstant ==
    Analyzed =>
        \A c \in liveness :
            Term(c).kind = "CHOICE" =>
                /\ <<c, NotChosen(c)>> \notin calls
                /\ ~(preferConstants /\ c \in input.concrete) =>
                      /\ Chosen(c) \in liveness
                      /\ <<c, Chosen(c)>> \in calls

C10_Witness ==
    /\ Analyzed /\ preferConstants
    /\ 10 \in liveness /\ 10 \notin input.concrete
    /\ input.definitions[11] = <<>>
    /\ 12 \in liveness /\ 11 \notin liveness

\* The seeds of the whole analysis, in the order analyze passes them to
\* makeLive.
AllSeeds ==
    Flatten([i \in 1..Len(input.statements) |->
                StatementSeeds(input.statements[i])])
    \o Flatten([i \in 1..Len(input.terms) |-> TermSeeds(input.terms[i])])
    \o ReturnSeeds

\* The orders the same seeds are tried in: every rotation of AllSeeds.
Rotations(s) ==
    { [i \in 1..Len(s) |-> s[((i + k - 1) % Len(s)) + 1]] : k \in 0..Len(s) }

\* A liveness set nothing has been added to.
Fresh == [live |-> {}, calls |-> {}, marked |-> 0]

\* The terms propagateLiveness(t) passes to makeLive.
Propagated(t) ==
    IF preferConstants /\ isRead(t) /\ isConcrete(t) THEN <<>> ELSE Targets(t)

\* makeLive on each of ts taken from the last to the first, every
\* propagation visiting its definitions and operands from the last to the
\* first as well.
RECURSIVE makeLiveBackwards(_, _)
makeLiveBackwards(live, ts) ==
    IF ts = <<>> THEN live
    ELSE LET t == ts[Len(ts)]
             rest == SubSeq(ts, 1, Len(ts) - 1)
         IN  IF t \in live THEN makeLiveBackwards(live, rest)
             ELSE makeLiveBackwards(
                      makeLiveBackwards(live \cup {t}, Propagated(t)), rest)

\* C11: the final live set does not depend on the order of the makeLive
\* calls: passing the seeds of the analysis to makeLive on a fresh set in
\* any rotation of their order, visiting definitions and operands forwards
\* or backwards, yields the set analyze has computed, and so does running
\* the seeding again on the set already computed.
C11_OrderIndependent ==
    Analyzed =>
        /\ \A order \in Rotations(AllSeeds) :
              /\ makeLiveAll(Fresh, 0, order).live = liveness
              /\ makeLiveBackwards({}, order) = liveness
        /\ makeLiveAll(LiveState, 0, AllSeeds).live = liveness

C11_Witness ==
    /\ Analyzed
    /\ Len(AllSeeds) >= 8
    /\ {1, 5} \subseteq liveness
    /\ input.definitions[3] = <<<<1>>, <<5>>>>
    /\ input.definitions[8] = <<<<1, 5>>>>
    /\ Cardinality(liveness) >= 14

\* How far analyze has got: its loops in program order, then the index.
Progress ==
    LET loop == CASE lpc = "analyze" -> 0 [] lpc = "regions" -> 1
                  [] lpc = "sort" -> 2 [] lpc = "statements" -> 3
                  [] lpc = "terms" -> 4 [] lpc = "returns" -> 5
                  [] lpc = "done" -> 6
    IN  100 * loop + idx

\* analyze is at a step it can take (inside one of its loops the index is
\* on an element of the collection), or has returned.
InsideAnalyze ==
    \/ lpc \in {"analyze", "sort", "returns", "done"}
    \/ lpc = "regions" /\ idx \in 1..Len(input.nodes)
    \/ lpc = "statements" /\ idx \in 1..Len(input.statements)
    \/ lpc = "terms" /\ idx \in 1..Len(input.terms)

\* C12: propagation terminates, cycles of reaching definitions included:
\* every makeLive call leaves its term live, the calls that marked a term
\* are as many as the live terms (each marked exactly one new term) and so
\* at most as many as the terms; every step of analyze, with the whole
\* propagation it starts, advances analyze, and analyze is never stuck
\* before it returns.
C12_Terminates ==
    /\ [](/\ marked = Cardinality(liveness)
          /\ marked <= Cardinality(Terms)
          /\ \A c \in calls : c[2] \in liveness
          /\ InsideAnalyze)
    /\ [][Progress' > Progress /\ Progress' <= 600]_vars

\* A cycle has been walked: t1 made t2 and so t3 live, whose definition is
\* t1 again, and t5 made t7 and so t8 live, whose definition is t5.
C12_Witness ==
    /\ Analyzed
    /\ {<<1, 2>>, <<2, 3>>, <<3, 1>>} \subseteq calls
    /\ {<<5, 7>>, <<7, 8>>, <<8, 5>>} \subseteq calls

\* C13: the live set only grows: no step of analyze and no single makeLive
\* call, on whatever term and at whatever point of the pass, removes a
\* live term; and makeLive(t) on a live t leaves the set as it is, marks
\* nothing and runs no propagation (its only trace is the call itself).
C13_MonotoneIdempotent ==
    /\ [][liveness \subseteq liveness']_vars
    /\ [](\A t \in Terms :
            LET after == makeLive(LiveState, 0, t)
            IN  /\ liveness \subseteq after.live
                /\ t \in liveness =>
                      /\ after.live = liveness
                      /\ after.marked = marked
                      /\ after.calls = calls \cup {<<0, t>>})

\* t1 was live when t3 propagated to it, in the middle of the term loop,
\* and t7 (whose operand t8 is on a cycle) is live with the pass not over.
C13_Witness ==
    /\ lpc = "terms" /\ idx > 5
    /\ <<3, 1>> \in calls
    /\ {1, 2, 3, 5, 7, 8} \subseteq liveness
    /\ 16 \notin liveness

\* =========================================================================
\* Properties of the seeding rules (checked under CaseSpec and LiveSpec)
\* =========================================================================

\* The terms analyze and computeLiveness have passed to makeLive.
Seeded == { c[2] : c \in { call \in calls : call[1] < 0 } }

\* The terms the propagation rules require to be live once t is: the
\* source of a write or the definitions of a read MemoryLocationAccess or
\* Dereference, the address of an unresolved Dereference, the operands of
\* an operator, the sub-term a Choice picks; nothing at a concrete read
\* when the build prefers constants.
Required(t) ==
    LET term == Term(t)
        access == term.kind \in {"MEMORY_LOCATION_ACCESS", "DEREFERENCE"}
    IN  IF preferConstants /\ term.access = "read" /\ t \in input.concrete
        THEN {}
        ELSE (IF access /\ term.access = "read" THEN DefiningTerms(t)
              ELSE {})
             \cup (IF access /\ term.access = "write" /\ term.source # 0
                   THEN {term.source} ELSE {})
             \cup (IF term.kind = "DEREFERENCE"
                      /\ input.memoryLocation[t] = "none"
                   THEN {term.a} ELSE {})
             \cup (IF term.kind = "UNARY_OPERATOR" THEN {term.a} ELSE {})
             \cup (IF term.kind = "BINARY_OPERATOR" THEN {term.a, term.b}
                   ELSE {})
             \cup (IF term.kind = "CHOICE" THEN {Chosen(t)} ELSE {})

\* The least set that contains S and with every term what it requires.
RECURSIVE LeastClosed(_)
LeastClosed(S) ==
    LET more == S \cup UNION { Required(t) : t \in S }
    IN  IF more = S THEN S ELSE LeastClosed(more)

\* The function is a leaf: an assignment to a location that is not global,
\* a return, and no return value in a signature of the function.
LeafFunction ==
    /\ input.statements = <<1, 5>>
    /\ input.memoryLocation[1] # "global"
    /\ \/ input.functionCalleeId = 0
       \/ ~input.signatures[input.functionCalleeId].present
       \/ input.signatures[input.functionCalleeId].returnValue = "none"

IsDeadJump(s) ==
    \E k \in 1..Len(input.nodes) :
        LET node == input.nodes[k]
        IN  node.region /\ node.switch /\ node.boundsCheckNode
            /\ node.jump = s

\* The condition and the explicit target addresses of a jump.
JumpTerms(s) ==
    {Statement(s).condition, Statement(s).thenAddress,
     Statement(s).elseAddress} \ {0}

\* The seeds of everything but the statement s.
SeededElsewhere(s) ==
    { c[2] : c \in { call \in calls : call[1] < 0
                                      /\ call[1] # ByStatement(s) } }

\* C17: when analyze has returned, every jump of the function that is not
\* dead has passed its condition and its target addresses to makeLive and
\* they are live; a dead jump has passed nothing to makeLive, and no term
\* that is reachable from its condition and addresses only (and not from
\* the seeds of the rest of the function) is live.
C17_JumpSeedsUnlessDead ==
    Analyzed =>
        \A k \in 1..Len(input.statements) :
            LET s == input.statements[k]
            IN  Statement(s).kind = "JUMP" =>
                  IF ~IsDeadJump(s)
                  THEN /\ JumpTerms(s) \subseteq liveness
                       /\ \A t \in JumpTerms(s) :
                            <<ByStatement(s), t>> \in calls
                  ELSE /\ \A c \in calls : c[1] # ByStatement(s)
                       /\ (LeastClosed(JumpTerms(s))
                             \ LeastClosed(SeededElsewhere(s)))
                          \cap liveness = {}

\* s3 is the bounds check of the only Switch and s7 is an ordinary jump:
\* t18 and t19 are live, t10, t13 and the sub-terms of t10 are not.
C17_Witness ==
    /\ Analyzed
    /\ input.nodes = <<SwitchNode(3)>>
    /\ deadJumps = <<3>>
    /\ {18, 19} \subseteq liveness
    /\ liveness \cap {10, 11, 12, 13} = {}
    /\ input.definitions[11] # <<>>

\* The terms the statement or term rule of s has passed to makeLive.
SeededBy(caller) == { c[2] : c \in { call \in calls : call[1] = caller } }

\* The call has a callee id, the id has a signature, the call has a hook.
CallIsKnown ==
    /\ input.callCalleeId # 0
    /\ input.signatures[input.callCalleeId].present
    /\ input.callHook

\* The terms the call hook yields for the argument locations of the
\* signature of the call.
ArgumentTerms ==
    LET arguments == input.signatures[input.callCalleeId].arguments
    IN  { getArgumentTerm(arguments[i]) : i \in 1..Len(arguments) }

\* C18: analyze is never stuck, whatever is missing; and when it has
\* returned, every call of the function has passed its target to makeLive
\* and the target is live; it has passed the argument term of every
\* argument location of the signature as well, and these are live, if the
\* call has a callee id with a signature and a call hook, and it has passed
\* the target only if any of the three is missing.
C18_CallSeeds ==
    /\ InsideAnalyze
    /\ Analyzed =>
        \A k \in 1..Len(input.statements) :
            LET s == input.statements[k]
            IN  Statement(s).kind = "CALL" =>
                  /\ Statement(s).target \in liveness
                  /\ SeededBy(ByStatement(s))
                       = {Statement(s).target}
                         \cup (IF CallIsKnown THEN ArgumentTerms ELSE {})
                  /\ CallIsKnown => ArgumentTerms \subseteq liveness

\* The call has a callee id and a signature with two arguments but no call
\* hook: its target t14 is live, no argument term is.
C18_Witness ==
    /\ Analyzed
    /\ input.callCalleeId # 0
    /\ input.signatures[input.callCalleeId].present
    /\ ~input.callHook
    /\ 14 \in liveness
    /\ liveness \cap {15, 17, 21} = {}
    /\ 16 \in liveness

\* An observable store: a write MemoryLocationAccess to global memory, or a
\* write Dereference whose memory location is unresolved or global.
ObservableStore(t) ==
    /\ Term(t).access = "write"
    /\ \/ /\ Term(t).kind = "MEMORY_LOCATION_ACCESS"
          /\ input.memoryLocation[t] = "global"
       \/ /\ Term(t).kind = "DEREFERENCE"
          /\ input.memoryLocation[t] \in {"none", "global"}

\* C19: when analyze has returned, the term rule has passed to makeLive the
\* observable stores of the function, each of which is live, and nothing
\* else: no read, no kill, no write to a resolved location that is not
\* global, no term of another kind.  The write Dereference of a store
\* through an unresolved pointer is live with its source and its address.
C19_TermSeeds ==
    Analyzed =>
        \A k \in 1..Len(input.terms) :
            LET t == input.terms[k]
            IN  /\ SeededBy(ByTerm(t))
                     = (IF ObservableStore(t) THEN {t} ELSE {})
                /\ ObservableStore(t) => t \in liveness
                /\ ( /\ Term(t).kind = "DEREFERENCE"
                     /\ Term(t).access = "write"
                     /\ input.memoryLocation[t] = "none" ) =>
                        /\ Term(t).a \in liveness
                        /\ Term(t).source # 0 => Term(t).source \in liveness

\* *t6 = t7 through an unresolved pointer, next to the assignment of t1, a
\* location that is not global: t5, t6 and t7 are live, t1 was not seeded.
C19_Witness ==
    /\ Analyzed
    /\ input.memoryLocation[5] = "none"
    /\ input.memoryLocation[1] = "local"
    /\ SeededBy(ByTerm(5)) = {5}
    /\ {5, 6, 7} \subseteq liveness
    /\ SeededBy(ByTerm(1)) = {}
    /\ 1 \notin liveness

\* The function has a callee id whose signature exists and has a return
\* value.
FunctionReturnsValue ==
    /\ input.functionCalleeId # 0
    /\ input.signatures[input.functionCalleeId].present
    /\ input.signatures[input.functionCalleeId].returnValue # "none"

\* The return value terms of the Returns of the function that have a hook.
ReturnValueTerms ==
    { getReturnValueTerm(input.returns[k],
          input.signatures[input.functionCalleeId].returnValue) :
        k \in { j \in 1..Len(input.returns) :
                  input.returnHook[input.returns[j]] } }

\* C20: when analyze has returned, its tail has passed to makeLive the
\* return value term of every Return that has a hook, and these are live,
\* if the function has a callee id whose signature exists and has a return
\* value, and nothing if the function has no callee id, no signature or no
\* return value; the statement rule of a Return has passed nothing.
C20_ReturnSeeds ==
    Analyzed =>
        /\ SeededBy(ByReturns)
             = (IF FunctionReturnsValue THEN ReturnValueTerms ELSE {})
        /\ FunctionReturnsValue => ReturnValueTerms \subseteq liveness
        /\ \A k \in 1..Len(input.statements) :
              Statement(input.statements[k]).kind = "RETURN" =>
                  SeededBy(ByStatement(input.statements[k])) = {}

\* The function returns a value and has two Returns, of which s5 has a hook
\* and s10 has none: t16 is live, t22 is not.
C20_Witness ==
    /\ Analyzed
    /\ FunctionReturnsValue
    /\ input.returns = <<5, 10>>
    /\ input.returnHook[5] /\ ~input.returnHook[10]
    /\ 16 \in liveness /\ 22 \notin liveness

\* Phase 1 of analyze is over: the list has been rebuilt and sorted.
AfterPhase1 == lpc \in {"statements", "terms", "returns", "done"}

\* C21: from the end of Phase 1 on, the dead-jump list is sorted, each of
\* its elements is a Jump statement that ends the block of the
\* boundsCheckNode of a Switch region of the graph (so nothing an earlier
\* run had left in the list remains), every such jump is in it, and the
\* rest of the analysis does not change it.
C21_DeadJumpList ==
    /\ [](AfterPhase1 =>
            /\ \A i \in 1..Len(deadJumps) : \A j \in i..Len(deadJumps) :
                  deadJumps[i] <= deadJumps[j]
            /\ \A i \in 1..Len(deadJumps) :
                  /\ deadJumps[i] \in Statements
                  /\ Statement(deadJumps[i]).kind = "JUMP"
                  /\ IsDeadJump(deadJumps[i])
            /\ \A s \in Statements :
                  IsDeadJump(s) => \E i \in 1..Len(deadJumps) :
                                      deadJumps[i] = s)
    /\ [][AfterPhase1 => deadJumps' = deadJumps]_vars

\* The Switch regions come in the order s7, s3 and the list is 3, 7: both
\* jumps are dead and none of their terms is live.
C21_Witness ==
    /\ Analyzed
    /\ input.nodes = <<SwitchNode(7), BasicNode, SwitchNode(3)>>
    /\ deadJumps = <<3, 7>>
    /\ liveness \cap {10, 13, 18, 19} = {}

====
